---------------------------- MODULE Spec2Model ----------------------------
(***************************************************************************)
(* A model of metrology_analytics.py: the record generator, the batch      *)
(* loader, the lot aggregator and the __main__ reference flow, together    *)
(* with the warehouse (the connector's cursor and the table behind it)     *)
(* that the three operations talk to.                                      *)
(*                                                                         *)
(* Strings.  A Python str is a sequence of text pieces; a piece is either  *)
(* the quote character "'" or a run of text without a quote.  An f-string  *)
(* is the concatenation of its parts.                                      *)
(*                                                                         *)
(* Numbers.  LINE_WIDTH_NM is kept in hundredths of a nanometre (the       *)
(* generator rounds to two decimals); an average is the exact rational     *)
(* [num, den] in lowest terms.                                             *)
(*                                                                         *)
(* EVENT_TIMESTAMP (datetime.utcnow()) is written once and read by no      *)
(* operation of the program; the records of the model do not carry it.     *)
(***************************************************************************)
EXTENDS Integers, Sequences, FiniteSets, TLC

VARIABLES
    pc,           \* where the caller stands (the __main__ flow, or a free caller)
    conn,         \* the connection object of __main__: "none", "open", "closed"
    table_exists, \* the warehouse: whether wafer_metrology exists
    store,        \* the warehouse: the rows of wafer_metrology, in insertion order
    i,            \* __main__: the loop index of `for i in range(...)`
    wafer_data,   \* the list most recently produced for / handed to the loader
    args,         \* the arguments of the most recent call
    result,       \* what the most recent operation did, as its caller sees it
    seen,         \* __main__: what each ingest call of the loop gave back (history)
    calls         \* __main__: the cursor calls made so far, in order (history)

vars == <<pc, conn, table_exists, store, i, wafer_data, args, result, seen, calls>>

\* An optional value is a sequence of at most one element.
None == <<>>
Some(v) == <<v>>

(***************************************************************************)
(* Bounds of the model.  The reference flow runs 5 wafers of 10 steps;     *)
(* the model runs it with the two counts below.                            *)
(***************************************************************************)
num_wafers_to_simulate == 2
num_steps == 2
MaxApiSteps == 3
MaxRows == 3
MaxGenSteps == 11

(***************************************************************************)
(* random.uniform(50.5, 51.5) rounded to two decimals, in hundredths, and  *)
(* random.randint(0, 5).                                                   *)
(***************************************************************************)
UNIFORM_LO == 5050
UNIFORM_HI == 5150
RANDINT_LO == 0
RANDINT_HI == 5

\* The draws (measurement, defect_count) the model lets the random source make.
Draws == {<<UNIFORM_LO, RANDINT_HI>>, <<UNIFORM_HI, RANDINT_LO>>}

(***************************************************************************)
(*                         String formatting                               *)
(***************************************************************************)
Digit(d) == <<"0", "1", "2", "3", "4", "5", "6", "7", "8", "9">>[d + 1]

RECURSIVE DecDigits(_)
DecDigits(n) == IF n < 10 THEN <<Digit(n)>>
                ELSE DecDigits(n \div 10) \o <<Digit(n % 10)>>

\* f"{n:02d}": the decimal digits, zero-padded on the left to width 2.
Fmt02d(n) == IF n < 10 THEN <<"0">> \o DecDigits(n) ELSE DecDigits(n)

\* A variant of StepLabel that formats the last digit of the index only.
StepLabelUnits(step) == <<"Step_">> \o Fmt02d(step % 10)

\* f"Step_{step:02d}"
StepLabel(step) == <<"Step_">> \o Fmt02d(step)

\* f"WAFER_{i+1:02d}"
WaferLabel(k) == <<"WAFER_">> \o Fmt02d(k + 1)

\* lot_id = "LOT_A_2025" of __main__, and the other lot identifiers a caller
\* passes in the model: a second lot, one with a quote in it, and one that
\* closes the literal of the query and goes on with SQL of its own.
LOT_A_2025 == <<"LOT_A_2025">>
LOT_B_2025 == <<"LOT_B_2025">>
LOT_QUOTE == <<"LOT_O", "'", "BRIEN">>
LOT_INJECT == <<"'", " OR LOT_ID = ", "'", "LOT_B_2025">>

(***************************************************************************)
(*                         Record Generator                                *)
(***************************************************************************)
\* One tuple of the list, as a record (the timestamp left out, see above).
MetrologyRecord(wafer_id, lot, step, draw) ==
    [wafer_id |-> wafer_id, lot_id |-> lot, process_step |-> StepLabel(step),
     line_width_nm |-> draw[1], defect_count |-> draw[2]]

\* The body of `for step in range(num_steps)`, from index `step` on.
RECURSIVE GenLoop(_, _, _, _, _)
GenLoop(wafer_id, lot, n, rnd, step) ==
    IF step >= n THEN <<>>
    ELSE <<MetrologyRecord(wafer_id, lot, step, rnd[step])>>
         \o GenLoop(wafer_id, lot, n, rnd, step + 1)

\* generate_wafer_metrology_data(wafer_id, lot_id, num_steps), the random
\* source's draws given as rnd: step index -> (measurement, defect_count).
generate_wafer_metrology_data(wafer_id, lot, n, rnd) ==
    GenLoop(wafer_id, lot, n, rnd, 0)

\* All the lists a call with these arguments can return.
Generated(wafer_id, lot, n) ==
    {generate_wafer_metrology_data(wafer_id, lot, n, rnd) :
        rnd \in [0 .. n - 1 -> Draws]}

(***************************************************************************)
(*                 The warehouse behind the cursor                         *)
(*                                                                         *)
(* The cursor's calls are the program's only way to the table.  What the   *)
(* warehouse does with a call is its own choice, given to the operators    *)
(* below as `env`: a call may raise, and a batch that raises may have      *)
(* applied any prefix of its rows (none of them when the store applies a   *)
(* batch atomically).                                                      *)
(***************************************************************************)
BatchEnvs(seqparams) ==
    {[raises |-> FALSE, applied |-> Len(seqparams)]}
    \cup {[raises |-> TRUE, applied |-> p] : p \in 0 .. Len(seqparams)}

\* cur.executemany(INSERT ..., seqparams): the rows are bound values.
executemany(tbl, rows, seqparams, env) ==
    IF ~tbl THEN [store |-> rows, raised |-> TRUE]
    ELSE IF env.raises
         THEN [store |-> rows \o SubSeq(seqparams, 1, env.applied), raised |-> TRUE]
         ELSE [store |-> rows \o seqparams, raised |-> FALSE]

(***************************************************************************)
(*                           Batch Loader                                  *)
(***************************************************************************)
INSERT_STMT == <<"INSERT INTO wafer_metrology (...) VALUES (%s, %s, %s, %s, %s, %s);">>

\* A variant of the loader that submits the batch a second time when the
\* first submission raised.
ingest_with_retry(tbl, rows, data, env) ==
    LET r1 == executemany(tbl, rows, data, env)
        r2 == IF r1.raised THEN executemany(tbl, r1.store, data, env) ELSE r1
    IN  [op |-> "ingest",
         store |-> r2.store,
         ret |-> None,
         raised |-> FALSE,
         printed |-> IF r2.raised
                     THEN [text |-> "Error ingesting data", count |-> None]
                     ELSE [text |-> "Successfully ingested records",
                           count |-> Some(Len(data))],
         client_calls |->
             <<[op |-> "executemany", stmt |-> INSERT_STMT, rows |-> data,
                raised |-> r1.raised]>>
             \o (IF r1.raised
                 THEN <<[op |-> "executemany", stmt |-> INSERT_STMT,
                         rows |-> data, raised |-> r2.raised]>>
                 ELSE <<>>),
         df |-> None]

\* ingest_data_into_snowflake(conn, data): one executemany inside try/except;
\* the except branch prints and falls off the end of the function.
ingest_data_into_snowflake(tbl, rows, data, env) ==
    LET r == executemany(tbl, rows, data, env)
    IN  [op |-> "ingest",
         store |-> r.store,
         ret |-> None,
         raised |-> FALSE,
         printed |-> IF r.raised
                     THEN [text |-> "Error ingesting data", count |-> None]
                     ELSE [text |-> "Successfully ingested records",
                           count |-> Some(Len(data))],
         client_calls |-> <<[op |-> "executemany", stmt |-> INSERT_STMT,
                             rows |-> data, raised |-> r.raised]>>,
         df |-> None]

(***************************************************************************)
(*                          Lot Aggregator                                 *)
(***************************************************************************)
\* The WHERE clause of the f-string: LOT_ID = '{lot_id}'
WhereClause(lot) == <<"LOT_ID = ", "'">> \o lot \o <<"'">>

\* The warehouse reads a string literal whose opening quote is before ts[j]:
\* a doubled quote is a quote character, a single one ends the literal.
RECURSIVE ReadLiteral(_, _, _)
ReadLiteral(ts, j, acc) ==
    IF j > Len(ts) THEN [ok |-> FALSE, value |-> acc, next |-> j]
    ELSE IF ts[j] = "'"
         THEN IF j + 1 <= Len(ts) /\ ts[j + 1] = "'"
              THEN ReadLiteral(ts, j + 2, acc \o <<"'">>)
              ELSE [ok |-> TRUE, value |-> acc, next |-> j + 1]
         ELSE ReadLiteral(ts, j + 1, acc \o <<ts[j]>>)

\* The warehouse parses the clause: LOT_ID = <literal> { OR LOT_ID = <literal> };
\* any other text is a syntax error.  lits are the literals read so far.
RECURSIVE ParseWhere(_, _, _)
ParseWhere(ts, k, lits) ==
    IF k > Len(ts) THEN [ok |-> k > 1, lits |-> lits]
    ELSE IF /\ ts[k] = (IF k = 1 THEN "LOT_ID = " ELSE " OR LOT_ID = ")
            /\ k + 1 <= Len(ts)
            /\ ts[k + 1] = "'"
         THEN LET lit == ReadLiteral(ts, k + 2, <<>>)
              IN  IF lit.ok THEN ParseWhere(ts, lit.next, lits \cup {lit.value})
                  ELSE [ok |-> FALSE, lits |-> lits]
         ELSE [ok |-> FALSE, lits |-> lits]

\* The query text of the f-string.
SelectStmt(lot) ==
    <<"SELECT PROCESS_STEP, AVG(DEFECT_COUNT) AS AVG_DEFECTS, AVG(LINE_WIDTH_NM) AS AVG_LINE_WIDTH FROM wafer_metrology WHERE ">>
    \o WhereClause(lot)
    \o <<" GROUP BY PROCESS_STEP ORDER BY AVG_DEFECTS DESC;">>

Compiled(lot) == ParseWhere(WhereClause(lot), 1, {})

\* WHERE: the rows the compiled clause selects.
RECURSIVE SelectWhere(_, _)
SelectWhere(rows, lits) ==
    IF rows = <<>> THEN <<>>
    ELSE (IF Head(rows).lot_id \in lits THEN <<Head(rows)>> ELSE <<>>)
         \o SelectWhere(Tail(rows), lits)

Selected(rows, lot) ==
    IF Compiled(lot).ok THEN SelectWhere(rows, Compiled(lot).lits) ELSE <<>>

\* GROUP BY PROCESS_STEP: the groups, and the orders the store may list them in.
Groups(rows) == {rows[k].process_step : k \in 1 .. Len(rows)}

Orderings(S) ==
    {f \in [1 .. Cardinality(S) -> S] : \A a, b \in 1 .. Cardinality(S) :
                                            a # b => f[a] # f[b]}

RECURSIVE Gcd(_, _)
Gcd(a, b) == IF b = 0 THEN a ELSE Gcd(b, a % b)

Rational(n, d) == LET g == Gcd(n, d) IN [num |-> n \div g, den |-> d \div g]

RECURSIVE SumOf(_)
SumOf(xs) == IF xs = <<>> THEN 0 ELSE Head(xs) + SumOf(Tail(xs))

\* AVG(column) over a non-empty group: every row counts, zeros included.
AVG(xs) == Rational(SumOf(xs), Len(xs))

RECURSIVE ColumnOf(_, _, _)
ColumnOf(rows, step, col) ==
    IF rows = <<>> THEN <<>>
    ELSE (IF Head(rows).process_step = step
          THEN <<IF col = "DEFECT_COUNT" THEN Head(rows).defect_count
                 ELSE Head(rows).line_width_nm>>
          ELSE <<>>)
         \o ColumnOf(Tail(rows), step, col)

AggregateRow(rows, step) ==
    [PROCESS_STEP |-> step,
     AVG_DEFECTS |-> AVG(ColumnOf(rows, step, "DEFECT_COUNT")),
     AVG_LINE_WIDTH |-> AVG(ColumnOf(rows, step, "LINE_WIDTH_NM"))]

\* p >= q for rationals with positive denominators.
Geq(p, q) == p.num * q.den >= q.num * p.den

\* ORDER BY AVG_DEFECTS DESC, as a stable insertion into a sorted list.
RECURSIVE InsertDesc(_, _)
InsertDesc(row, sorted) ==
    IF sorted = <<>> THEN <<row>>
    ELSE IF Geq(Head(sorted).AVG_DEFECTS, row.AVG_DEFECTS)
         THEN <<Head(sorted)>> \o InsertDesc(row, Tail(sorted))
         ELSE <<row>> \o sorted

\* A variant of the query without its ORDER BY.
OrderByNothing(rows) == rows

RECURSIVE OrderByAvgDefectsDesc(_)
OrderByAvgDefectsDesc(rows) ==
    IF rows = <<>> THEN <<>>
    ELSE InsertDesc(rows[Len(rows)],
                    OrderByAvgDefectsDesc(SubSeq(rows, 1, Len(rows) - 1)))

\* cur.execute(SELECT ...) and cur.fetch_pandas_all(): the statement raises
\* when the store says so, when the table is missing or when the text does
\* not compile; otherwise the groups come in the store's order and are sorted.
execute_select(tbl, rows, lot, raises, order) ==
    IF ~tbl \/ raises \/ ~Compiled(lot).ok
    THEN [raised |-> TRUE, table |-> None]
    ELSE [raised |-> FALSE,
          table |-> Some(OrderByAvgDefectsDesc(
                        [k \in 1 .. Len(order) |->
                            AggregateRow(Selected(rows, lot), order[k])]))]

\* run_metrology_analysis(conn, lot_id): the query inside try/except; df is
\* printed, nothing is returned.
run_metrology_analysis(tbl, rows, lot, raises, order) ==
    LET r == execute_select(tbl, rows, lot, raises, order)
    IN  [op |-> "analyze",
         store |-> rows,
         ret |-> None,
         raised |-> FALSE,
         printed |-> IF r.raised
                     THEN [text |-> "Error running analysis query", count |-> None]
                     ELSE [text |-> "Simulated Analysis Results:", count |-> None],
         client_calls |-> <<[op |-> "execute", stmt |-> SelectStmt(lot),
                             rows |-> <<>>, raised |-> r.raised]>>,
         df |-> r.table]

(***************************************************************************)
(*      The generator alone: a caller draws arguments and calls it         *)
(***************************************************************************)
NoResult == [op |-> "none", ret |-> None, raised |-> FALSE,
             printed |-> [text |-> "", count |-> None], client_calls |-> <<>>,
             df |-> None]

\* What the caller and the console get of an operation r.
Outcome(r) == [op |-> r.op, ret |-> r.ret, raised |-> r.raised,
               printed |-> r.printed, client_calls |-> r.client_calls,
               df |-> r.df]

NoArgs == [wafer_id |-> <<>>, lot_id |-> <<>>, num_steps |-> 0]

GenWafers == {WaferLabel(0), WaferLabel(1)}
GenLots == {LOT_A_2025, LOT_B_2025, LOT_QUOTE}

InitGen ==
    /\ pc = "gen"
    /\ conn = "none"
    /\ table_exists = FALSE
    /\ store = <<>>
    /\ i = 0
    /\ wafer_data = <<>>
    /\ args \in [wafer_id : GenWafers, lot_id : GenLots,
                 num_steps : 0 .. MaxGenSteps]
    /\ result = NoResult
    /\ seen = <<>>
    /\ calls = <<>>

GenCall ==
    /\ pc = "gen"
    /\ \E data \in Generated(args.wafer_id, args.lot_id, args.num_steps) :
          wafer_data' = data
    /\ pc' = "returned"
    /\ UNCHANGED <<conn, table_exists, store, i, args, result, seen, calls>>

NextGen == GenCall

SpecGen == InitGen /\ [][NextGen]_vars

(***************************************************************************)
(*                     The reference flow, __main__                        *)
(***************************************************************************)
\* A row an earlier run may have left in the table.
StaleRow == MetrologyRecord(<<"WAFER_", "9", "9">>, LOT_A_2025, 0,
                            <<UNIFORM_LO, RANDINT_HI>>)

USE_DATABASE == <<"USE DATABASE ", "FAB_DATA_ANALYTICS">>
USE_SCHEMA == <<"USE SCHEMA ", "METROLOGY">>
CREATE_TABLE == <<"CREATE OR REPLACE TABLE wafer_metrology (...);">>

Executed(stmt, raised) == [op |-> "execute", stmt |-> stmt, n |-> 0, raised |-> raised]

\* A cursor call as the history keeps it.
Logged(c) == [op |-> c.op, stmt |-> c.stmt, n |-> Len(c.rows), raised |-> c.raised]

LogAll(cs) == [k \in 1 .. Len(cs) |-> Logged(cs[k])]

\* A variant of the loop that stops one wafer short.
LoopPcShort(k) == IF k + 1 < num_wafers_to_simulate THEN "generate" ELSE "analyze"

\* `for i in range(num_wafers_to_simulate)`: the loop body, or what follows.
LoopPc(k) == IF k < num_wafers_to_simulate THEN "generate" ELSE "analyze"

Init ==
    /\ pc = "connect"
    /\ conn = "none"
    /\ table_exists \in BOOLEAN
    /\ store \in (IF table_exists THEN {<<>>, <<StaleRow>>} ELSE {<<>>})
    /\ i = 0
    /\ wafer_data = <<>>
    /\ args = NoArgs
    /\ result = NoResult
    /\ seen = <<>>
    /\ calls = <<>>

\* connect_to_snowflake(): the connection, or None after a printed error.
Connect ==
    /\ pc = "connect"
    /\ \/ conn' = "open" /\ pc' = "use_context"
       \/ conn' = "none" /\ pc' = "done"
    /\ UNCHANGED <<table_exists, store, i, wafer_data, args, result, seen, calls>>

\* use_context(conn, database, schema): two statements; False when one raises.
UseContext ==
    /\ pc = "use_context"
    /\ \/ /\ calls' = calls \o <<Executed(USE_DATABASE, FALSE),
                                 Executed(USE_SCHEMA, FALSE)>>
          /\ pc' = "create"
       \/ /\ calls' = calls \o <<Executed(USE_DATABASE, TRUE)>>
          /\ pc' = "done"
       \/ /\ calls' = calls \o <<Executed(USE_DATABASE, FALSE),
                                 Executed(USE_SCHEMA, TRUE)>>
          /\ pc' = "done"
    /\ UNCHANGED <<conn, table_exists, store, i, wafer_data, args, result, seen>>

\* create_metrology_table(conn): CREATE OR REPLACE TABLE inside try/except.
CreateTable ==
    /\ pc = "create"
    /\ \/ /\ table_exists' = TRUE
          /\ store' = <<>>
          /\ calls' = Append(calls, Executed(CREATE_TABLE, FALSE))
       \/ /\ UNCHANGED <<table_exists, store>>
          /\ calls' = Append(calls, Executed(CREATE_TABLE, TRUE))
    /\ pc' = LoopPc(0)
    /\ UNCHANGED <<conn, i, wafer_data, args, result, seen>>

\* wafer_id = f"WAFER_{i+1:02d}"; wafer_data = generate_wafer_metrology_data(...)
MainGenerate ==
    /\ pc = "generate"
    /\ args' = [wafer_id |-> WaferLabel(i), lot_id |-> LOT_A_2025,
                num_steps |-> num_steps]
    /\ wafer_data' \in Generated(WaferLabel(i), LOT_A_2025, num_steps)
    /\ pc' = "ingest"
    /\ UNCHANGED <<conn, table_exists, store, i, result, seen, calls>>

\* ingest_data_into_snowflake(conn, wafer_data), and the loop's next turn.
MainIngest ==
    /\ pc = "ingest"
    /\ \E env \in BatchEnvs(wafer_data) :
          LET r == ingest_data_into_snowflake(table_exists, store, wafer_data, env)
          IN  /\ store' = r.store
              /\ result' = Outcome(r)
              /\ seen' = Append(seen, [ret |-> r.ret, raised |-> r.raised,
                                       printed |-> r.printed])
              /\ calls' = calls \o LogAll(r.client_calls)
    /\ i' = i + 1
    /\ pc' = LoopPc(i + 1)
    /\ UNCHANGED <<conn, table_exists, wafer_data, args>>

\* run_metrology_analysis(conn, lot_id)
MainAnalyze ==
    /\ pc = "analyze"
    /\ \E raises \in BOOLEAN :
       \E order \in Orderings(Groups(Selected(store, LOT_A_2025))) :
          LET r == run_metrology_analysis(table_exists, store, LOT_A_2025,
                                          raises, order)
          IN  /\ result' = Outcome(r)
              /\ calls' = calls \o LogAll(r.client_calls)
    /\ pc' = "close"
    /\ UNCHANGED <<conn, table_exists, store, i, wafer_data, args, seen>>

\* conn.close()
MainClose ==
    /\ pc = "close"
    /\ conn' = "closed"
    /\ pc' = "done"
    /\ UNCHANGED <<table_exists, store, i, wafer_data, args, result, seen, calls>>

Next ==
    \/ Connect
    \/ UseContext
    \/ CreateTable
    \/ MainGenerate
    \/ MainIngest
    \/ MainAnalyze
    \/ MainClose

Spec == Init /\ [][Next]_vars

(***************************************************************************)
(*        A free caller: any operation, any argument, any order            *)
(***************************************************************************)
ApiLots == {LOT_A_2025, LOT_B_2025}
QueryLots == {LOT_A_2025, LOT_B_2025, LOT_QUOTE, LOT_INJECT}

InitApi ==
    /\ pc = "api"
    /\ conn = "open"
    /\ table_exists = TRUE
    /\ store = <<>>
    /\ i = 0
    /\ wafer_data = <<>>
    /\ args = NoArgs
    /\ result = NoResult
    /\ seen = <<>>
    /\ calls = <<>>

\* The caller generates a list and hands it to ingest_data_into_snowflake.
ApiIngest ==
    /\ pc = "api"
    /\ \E lot \in ApiLots, n \in 0 .. MaxApiSteps :
       \E data \in Generated(WaferLabel(0), lot, n) :
       \E env \in BatchEnvs(data) :
          LET r == ingest_data_into_snowflake(table_exists, store, data, env)
          IN  /\ Len(store) + Len(data) <= MaxRows
              /\ args' = [wafer_id |-> WaferLabel(0), lot_id |-> lot, num_steps |-> n]
              /\ wafer_data' = data
              /\ store' = r.store
              /\ result' = Outcome(r)
    /\ UNCHANGED <<pc, conn, table_exists, i, seen, calls>>

\* The caller calls run_metrology_analysis with a lot identifier of its own.
ApiAnalyze ==
    /\ pc = "api"
    /\ \E lot \in QueryLots, raises \in BOOLEAN :
       \E order \in Orderings(Groups(Selected(store, lot))) :
          LET r == run_metrology_analysis(table_exists, store, lot, raises, order)
          IN  /\ args' = [wafer_id |-> <<>>, lot_id |-> lot, num_steps |-> 0]
              /\ result' = Outcome(r)
    /\ UNCHANGED <<pc, conn, table_exists, store, i, wafer_data, seen, calls>>

NextApi == ApiIngest \/ ApiAnalyze

SpecApi == InitApi /\ [][NextApi]_vars

(***************************************************************************)
(*                            The claims                                   *)
(***************************************************************************)
ExecMany(cs) == SelectSeq(cs, LAMBDA c : c.op = "executemany")

IsSelect(c) == c.op = "execute" /\ c.stmt = SelectStmt(LOT_A_2025)

\* The k-th ingest call of the loop met a raising executemany.
BatchRaised(k) == k <= Len(ExecMany(calls)) /\ ExecMany(calls)[k].raised

RowsOfWafer(rows, wafer_id) == {k \in 1 .. Len(rows) : rows[k].wafer_id = wafer_id}

\* C1: whenever a cursor call made by ingest or analyze raises, the operation
\* itself ends in an error its caller sees (it raises); it never returns
\* normally after only printing.
C1_FailuresReachTheCaller ==
    result.op \in {"ingest", "analyze"} =>
        \A k \in 1 .. Len(result.client_calls) :
            result.client_calls[k].raised => result.raised

\* C2: when executemany raised for the k-th wafer's batch, the ingest call did
\* not report rows as ingested, and an analysis that delivered a table was
\* computed from no row of that wafer (the flow never retries a batch).
C2_FailedBatchContributesNothing ==
    \A k \in 1 .. Len(seen) :
        BatchRaised(k) =>
            /\ seen[k].printed.count = None
            /\ seen[k].ret \in {None, Some(0)}
            /\ (result.op = "analyze" /\ result.df # None) =>
                   RowsOfWafer(Selected(store, LOT_A_2025), WaferLabel(k - 1)) = {}

\* C3: a failed ingestion keeps the rows of every wafer ingested before it,
\* and when the analysis has run, the caller had been told of every wafer
\* whose ingestion failed (the call raised, or gave back something).
C3_CallerToldBeforeAnalysis ==
    /\ \A j \in 1 .. Len(seen) :
           ~BatchRaised(j) =>
               Cardinality(RowsOfWafer(store, WaferLabel(j - 1))) = num_steps
    /\ result.op = "analyze" =>
           \A k \in 1 .. Len(seen) :
               BatchRaised(k) => (seen[k].raised \/ seen[k].ret # None)

\* C4: the aggregate query runs at most once, only after the ingest call of
\* every wafer has returned, and no bulk insert follows it; a flow that runs
\* to its end has run it exactly once; wafers are taken one at a time, in
\* index order.
C4_AnalysisOnceAfterAllIngests ==
    /\ Cardinality({p \in 1 .. Len(calls) : IsSelect(calls[p])}) <= 1
    /\ \A p \in 1 .. Len(calls) :
           IsSelect(calls[p]) =>
               /\ Len(seen) = num_wafers_to_simulate
               /\ Len(ExecMany(SubSeq(calls, 1, p - 1))) = num_wafers_to_simulate
               /\ ExecMany(SubSeq(calls, p + 1, Len(calls))) = <<>>
    /\ (pc = "done" /\ conn = "closed") =>
           \E p \in 1 .. Len(calls) : IsSelect(calls[p])
    /\ pc = "ingest" =>
           /\ args.wafer_id = WaferLabel(Len(seen))
           /\ \A k \in 1 .. Len(wafer_data) :
                  wafer_data[k].wafer_id = WaferLabel(Len(seen))

C4_Witness ==
    /\ pc = "done"
    /\ conn = "closed"
    /\ Len(ExecMany(calls)) = num_wafers_to_simulate
    /\ IsSelect(calls[Len(calls)])

\* C5: every run of the flow whose analysis query is answered, whatever was
\* reported as failed before it, gets a table of exactly num_steps rows, one per step label, each the mean of exactly
\* num_wafers_to_simulate defect counts in [0, 5], one per wafer.
C5_FullLotOnEveryRun ==
    (result.op = "analyze" /\ ~result.client_calls[1].raised) =>
        /\ result.df # None
        /\ Len(result.df[1]) = num_steps
        /\ {result.df[1][k].PROCESS_STEP : k \in 1 .. Len(result.df[1])}
               = {StepLabel(n) : n \in 0 .. num_steps - 1}
        /\ \A k \in 1 .. Len(result.df[1]) :
               LET row == result.df[1][k]
                   own == SelectSeq(store, LAMBDA r :
                              /\ r.lot_id = LOT_A_2025
                              /\ r.process_step = row.PROCESS_STEP)
               IN  /\ Len(own) = num_wafers_to_simulate
                   /\ {own[n].wafer_id : n \in 1 .. Len(own)}
                          = {WaferLabel(w) : w \in 0 .. num_wafers_to_simulate - 1}
                   /\ \A n \in 1 .. Len(own) :
                          own[n].defect_count \in RANDINT_LO .. RANDINT_HI
                   /\ row.AVG_DEFECTS
                          = AVG([n \in 1 .. Len(own) |-> own[n].defect_count])

\* C6: ingest of an empty list gives back 0, makes no executemany call and is
\* not an error.
C6_EmptyIngestMakesNoCall ==
    (result.op = "ingest" /\ wafer_data = <<>>) =>
        /\ result.ret = Some(0)
        /\ ExecMany(result.client_calls) = <<>>
        /\ ~result.raised
        /\ result.printed.text # "Error ingesting data"

\* C7: every ingest call makes exactly one executemany call, carrying the whole
\* list it was given, whether or not that call raised (no retry); so the flow
\* has made as many executemany calls as ingest calls have returned.
C7_OneBulkCallPerIngest ==
    /\ Len(ExecMany(calls)) = Len(seen)
    /\ pc \in {"generate", "ingest", "analyze"} => Len(seen) = i
    /\ (result.op = "ingest" /\ pc \in {"generate", "analyze"}) =>
           /\ Len(result.client_calls) = 1
           /\ result.client_calls[1].op = "executemany"
           /\ result.client_calls[1].rows = wafer_data
           /\ Len(wafer_data) = num_steps

C7_Witness ==
    /\ result.op = "ingest"
    /\ pc = "analyze"
    /\ result.client_calls[1].raised
    /\ Len(seen) = num_wafers_to_simulate
    /\ \E k \in 1 .. Len(seen) : ~BatchRaised(k)

\* C8: an analysis whose query did not fail delivers exactly one row per
\* distinct step among the stored rows whose lot_id equals the requested one,
\* with the means of those rows (none when no row matches).
C8_RowsOfTheRequestedLotOnly ==
    (result.op = "analyze" /\ ~result.client_calls[1].raised) =>
        LET own == SelectSeq(store, LAMBDA r : r.lot_id = args.lot_id)
            df == result.df[1]
        IN  /\ result.df # None
            /\ Len(df) = Cardinality(Groups(own))
            /\ {df[k].PROCESS_STEP : k \in 1 .. Len(df)} = Groups(own)
            /\ \A k \in 1 .. Len(df) :
                   /\ df[k].AVG_DEFECTS
                          = AVG(ColumnOf(own, df[k].PROCESS_STEP, "DEFECT_COUNT"))
                   /\ df[k].AVG_LINE_WIDTH
                          = AVG(ColumnOf(own, df[k].PROCESS_STEP, "LINE_WIDTH_NM"))

\* C9: in a delivered table every row's AVG_DEFECTS is at least the next
\* row's.
C9_RowsDescendByAvgDefects ==
    (result.op = "analyze" /\ result.df # None) =>
        \A k \in 1 .. Len(result.df[1]) - 1 :
            result.df[1][k].AVG_DEFECTS.num * result.df[1][k + 1].AVG_DEFECTS.den
                >= result.df[1][k + 1].AVG_DEFECTS.num * result.df[1][k].AVG_DEFECTS.den

C9_Witness ==
    /\ result.op = "analyze"
    /\ result.df # None
    /\ Len(result.df[1]) >= 2
    /\ result.df[1][1].AVG_DEFECTS # result.df[1][2].AVG_DEFECTS
    /\ result.df[1][1].AVG_DEFECTS.den > 1

\* C10: generate returns exactly num_steps records, the k-th with the given
\* wafer_id and lot_id and the label "Step_" followed by the two decimal
\* digits of k - 1, so the labels are pairwise distinct and in index order.
C10_GenerateOnePerStep ==
    pc = "returned" =>
        /\ Len(wafer_data) = args.num_steps
        /\ \A k \in 1 .. Len(wafer_data) :
               /\ wafer_data[k].wafer_id = args.wafer_id
               /\ wafer_data[k].lot_id = args.lot_id
               /\ wafer_data[k].process_step
                      = <<"Step_", Digit((k - 1) \div 10), Digit((k - 1) % 10)>>
        /\ \A j, k \in 1 .. Len(wafer_data) :
               j # k => wafer_data[j].process_step # wafer_data[k].process_step

C10_Witness ==
    /\ pc = "returned"
    /\ args.num_steps >= 11
    /\ Len(wafer_data) >= 11

=============================================================================
